---- MODULE Spec2Model ----
(***************************************************************************)
(* Model of streamlit_app.py: the pagination-driven extraction loop        *)
(* scrape_homedepot_with_selenium(query) and the de-duplication its caller *)
(* applies to the returned list.                                           *)
(*                                                                         *)
(* The remote site and the browser are the environment: the content of a   *)
(* page is chosen when the page is loaded, a raw product entry is chosen   *)
(* when the loop reaches it, and a driver call may raise.                  *)
(***************************************************************************)
EXTENDS Integers, Sequences, FiniteSets, TLC

VARIABLES
    pc,                 \* position in the script
    driver,             \* "None" | "live" | "quit"
    current_page,       \* 0 while unassigned (before line 48)
    all_results,        \* the accumulated list of records
    page,               \* content of the page the browser shows
    remaining,          \* entries of products_list not yet iterated
    product,            \* loop variable of line 93
    exit_reason,        \* why the while loop was left
    status_placeholder, \* kind of the last status message
    exc,                \* the exception raised last, "None" if none
    propagated,         \* an exception escapes the function
    requests,           \* driver.get calls issued
    loads,              \* driver.get calls that returned
    fetched,            \* page numbers requested, in order
    finds,              \* find_element calls issued
    sleeps,             \* time.sleep calls made
    paused,             \* history: time.sleep was called since the last driver.get
    full_pages,         \* history: pages served with entries and a next-page control
    quits,              \* driver.quit calls made
    snap,               \* history: all_results when the while loop was left
    all_scraped_data,   \* value returned to the caller
    duplicates_mask,
    unique_df,
    duplicate_df

vars == <<pc, driver, current_page, all_results, page, remaining, product,
          exit_reason, status_placeholder, exc, propagated, requests, loads,
          fetched, finds, sleeps, paused, full_pages, quits, snap, all_scraped_data,
          duplicates_mask, unique_df, duplicate_df>>

-----------------------------------------------------------------------------
(* Bounds of the environment *)

\* the site links at most MaxPages result pages one after the other
MaxPages == 2
\* a page carries at most MaxProducts raw product entries
MaxProducts == 2

-----------------------------------------------------------------------------
(* Python / JSON values *)

PyNone == [t |-> "None"]
Missing == [t |-> "missing"]
Str(s) == [t |-> "str", v |-> s]
Num(n) == [t |-> "num", v |-> n]
\* a JSON object {"price": p}; p = Missing when the key is absent
PriceObj(p) == [t |-> "obj", price |-> p]

BASE_URL == "https://www.homedepot.com"
PLACEHOLDER == "https://placehold.co/100x100/e2e8f0/333333?text=No+Image"

\* dict.get(key, default): the default only replaces an absent key
Get(value, default) == IF value = Missing THEN default ELSE value

\* dict.get(key) without default
GetOrNone(value) == IF value = Missing THEN PyNone ELSE value

\* Python truth value of a price: None and 0 are false
Truthy(p) == IF p.t = "num" THEN p.v # 0 ELSE FALSE

-----------------------------------------------------------------------------
(* Raw product entries *)

Labels == {Missing, PyNone, Str(""), Str("N/A"), Str("a"), Str("A")}
Prices == {Missing, PyNone, Num(0), Num(1), Num(2)}
PriceFields == {Missing, PyNone} \cup {PriceObj(p) : p \in Prices}
Urls == {Missing, PyNone, Str("/p/1"), Str("p/1"), Str("https://www.homedepot.com/p/1")}
Medias == {"missing", "null", "no_images", "images_null", "empty_list",
           "first_no_url", "first_url_null", "first_url_empty", "first_url"}

ItemEntry(l, o, s, u, m) ==
    [item |-> "dict", productLabel |-> l, originalPrice |-> o,
     specialPrice |-> s, url |-> u, media |-> m]
\* {"item": null} and an entry without the key "item"
NullItem == [ItemEntry(Missing, Missing, Missing, Missing, "missing") EXCEPT !.item = "null"]
NoItem == [ItemEntry(Missing, Missing, Missing, Missing, "missing") EXCEPT !.item = "missing"]

EntriesAll ==
    {ItemEntry(l, o, s, u, m) : l \in Labels, o \in PriceFields, s \in PriceFields,
                                u \in Urls, m \in Medias}
    \cup {NullItem, NoItem}

\* the entries the pagination runs draw from: one pricing, labels absent,
\* null and differing by case only, and an entry of an unexpected shape
LoopLabels == {Missing, PyNone, Str("a"), Str("A")}
EntriesLoop ==
    {ItemEntry(l, PriceObj(Num(2)), PriceObj(Num(1)), Str("/p/1"), "first_url") : l \in LoopLabels}
    \cup {NullItem}

NoProduct == NoItem

-----------------------------------------------------------------------------
(* Normalisation of one entry, lines 94-115 *)

\* lines 99-100: pricing_info.get(key, {}).get('price')
PriceOf(field) ==
    IF field = Missing THEN PyNone ELSE GetOrNone(field.price)

\* line 95
NameOf(e) == Get(e.productLabel, Str("N/A"))

\* line 102
CurrentPrice(original_price, special_price) ==
    IF Truthy(special_price) THEN special_price ELSE original_price

\* line 103
WasPriceNoCompare(original_price, special_price) ==
    IF Truthy(special_price) THEN original_price ELSE PyNone
WasPrice(original_price, special_price) ==
    IF Truthy(special_price) /\ original_price # special_price
    THEN original_price ELSE PyNone

\* line 105
Link(e) == BASE_URL \o Get(e.url, Str("#")).v

\* line 106 and the "or" of line 114
ImageUrl(e) ==
    IF e.media = "first_url" THEN "https://images.thdstatic.com/1.jpg" ELSE PLACEHOLDER

\* lines 94-106 raise on a value that is not of the expected shape
Raises(e) ==
    \/ e.item = "null"
    \/ e.originalPrice = PyNone
    \/ e.specialPrice = PyNone
    \/ e.url = PyNone
    \/ e.media \in {"null", "images_null", "empty_list"}

\* the exception of the first line that raises
RaisedBy(e) ==
    IF e.item = "null" \/ e.originalPrice = PyNone \/ e.specialPrice = PyNone
    THEN "AttributeError"
    ELSE IF e.url = PyNone THEN "TypeError"
    ELSE IF e.media = "null" THEN "AttributeError"
    ELSE IF e.media = "images_null" THEN "TypeError"
    ELSE "IndexError"

\* line 108
Keep(name) == name # Str("N/A")

\* lines 109-115
Record(e) ==
    [name |-> NameOf(e),
     current_price |-> CurrentPrice(PriceOf(e.originalPrice), PriceOf(e.specialPrice)),
     original_price |-> WasPrice(PriceOf(e.originalPrice), PriceOf(e.specialPrice)),
     link |-> Link(e),
     image_url |-> ImageUrl(e)]

-----------------------------------------------------------------------------
(* De-duplication by the caller, lines 158-161 *)

\* line 159: full_df.duplicated(subset=['name'], keep='first')
duplicatedKeepLast(rows) ==
    [i \in 1..Len(rows) |-> \E j \in (i+1)..Len(rows) : rows[j].name = rows[i].name]
duplicated(rows) ==
    [i \in 1..Len(rows) |-> \E j \in 1..(i-1) : rows[j].name = rows[i].name]

\* a DataFrame is the sequence of its rows, each with its index label
DataFrame(rows) == [i \in 1..Len(rows) |-> [idx |-> i, row |-> rows[i]]]

\* lines 160-161: boolean indexing df[mask]
RECURSIVE Select(_, _, _)
Select(df, mask, want) ==
    IF df = <<>> THEN <<>>
    ELSE LET rest == Select(Tail(df), Tail(mask), want)
         IN IF Head(mask) = want THEN <<Head(df)>> \o rest ELSE rest

-----------------------------------------------------------------------------
(* Pages *)

Containers == {"absent", "malformed", "missing_keys", "bad_shape", "ok"}

\* the pages the site may serve as its n-th result page
PagesAt(n) ==
    LET nexts == IF n < MaxPages THEN {"absent", "present"} ELSE {"absent"}
    IN  {[container |-> c, count |-> 0, next |-> x] :
            c \in Containers \ {"ok"}, x \in nexts}
        \cup {[container |-> "ok", count |-> k, next |-> x] :
            k \in 0..MaxProducts, x \in nexts}

\* lines 82-88: the number of entries collected into products_list
ProductsCount(p) == IF p.container = "ok" THEN p.count ELSE 0

\* line 90: not products_list
EmptyListNever(n) == FALSE
EmptyList(n) == n = 0

\* the page carries product entries and a next-page control
Full(p) == ProductsCount(p) > 0 /\ p.next = "present"

NoPage == [container |-> "absent", count |-> 0, next |-> "absent"]

-----------------------------------------------------------------------------
(* Exceptions and the handlers of lines 117, 130 and 134 *)

\* line 117: except TimeoutException (inner try, lines 58-115)
InnerCatches(e) == e = "TimeoutException"
\* line 130: except NoSuchElementException (try of lines 122-128)
NavCatchesNothing(e) == FALSE
NavCatches(e) == e = "NoSuchElementException"
\* line 134: except Exception
OuterCatchesOnlyWebDriver(e) == e \in {"WebDriverException", "TimeoutException"}
OuterCatches(e) == TRUE

\* line 140
ReturnNothing(results) == <<>>
ReturnValue(results) == results

\* line 127
SamePage(p) == p
NextPageNumber(p) == p + 1

\* lines 108-115: all_results.append({...})
PrependRecord(results, r) == <<r>> \o results
AppendRecord(results, r) == Append(results, r)

\* line 137: if driver
DriverNever(d) == FALSE
DriverCreated(d) == d # "None"

\* leaving the while loop: by break (reason, status) or by an exception
LeaveContinue(reason, status, e) ==
    /\ pc' = "wait"
    /\ exit_reason' = reason
    /\ status_placeholder' = status
    /\ exc' = e
    /\ snap' = all_results
Leave(reason, status, e) ==
    /\ pc' = "finally"
    /\ exit_reason' = reason
    /\ status_placeholder' = status
    /\ exc' = e
    /\ snap' = all_results

\* an exception raised outside the two inner try blocks, or not caught by them
RaiseOuter(e) ==
    IF OuterCatches(e)
    THEN Leave("exception", "error", e) /\ UNCHANGED propagated
    ELSE Leave("exception", status_placeholder, e) /\ propagated' = TRUE

\* an exception raised inside the try of lines 58-115
RaiseInner(e) ==
    IF InnerCatches(e)
    THEN Leave("timeout", "error", e) /\ UNCHANGED propagated
    ELSE RaiseOuter(e)

\* an exception raised inside the try of lines 122-128
RaiseNav(e) ==
    IF NavCatches(e)
    THEN Leave("no_next", "success", e) /\ UNCHANGED propagated
    ELSE RaiseOuter(e)

-----------------------------------------------------------------------------
(* The script *)

Init ==
    /\ pc = "start"
    /\ driver = "None"
    /\ current_page = 0
    /\ all_results = <<>>
    /\ page = NoPage
    /\ remaining = 0
    /\ product = NoProduct
    /\ exit_reason = "none"
    /\ status_placeholder = "empty"
    /\ exc = "None"
    /\ propagated = FALSE
    /\ requests = 0
    /\ loads = 0
    /\ fetched = <<>>
    /\ finds = 0
    /\ sleeps = 0
    /\ paused = FALSE
    /\ full_pages = 0
    /\ quits = 0
    /\ snap = <<>>
    /\ all_scraped_data = <<>>
    /\ duplicates_mask = <<>>
    /\ unique_df = <<>>
    /\ duplicate_df = <<>>

callerVars == <<all_scraped_data, duplicates_mask, unique_df, duplicate_df>>

\* lines 33-43: webdriver.Chrome(...) raises, driver stays None
StartNoDriver ==
    /\ pc = "start"
    /\ RaiseOuter("WebDriverException")
    /\ UNCHANGED <<full_pages, driver, current_page, all_results, page, remaining, product,
                   requests, loads, fetched, finds, sleeps, paused, quits, callerVars>>

\* lines 33-46: the driver is created, driver.get(search_url) raises
StartGetFails ==
    /\ pc = "start"
    /\ paused' = FALSE
    /\ driver' = "live"
    /\ requests' = requests + 1
    /\ fetched' = Append(fetched, 1)
    /\ RaiseOuter("WebDriverException")
    /\ UNCHANGED <<full_pages, current_page, all_results, page, remaining, product,
                   loads, finds, sleeps, quits, callerVars>>

\* lines 33-48: the driver is created, the first page is loaded, current_page = 1
Start ==
    /\ pc = "start"
    /\ paused' = FALSE
    /\ driver' = "live"
    /\ requests' = requests + 1
    /\ loads' = loads + 1
    /\ fetched' = Append(fetched, 1)
    /\ current_page' = 1
    /\ \E p \in PagesAt(1) :
          page' = p /\ full_pages' = full_pages + (IF Full(p) THEN 1 ELSE 0)
    /\ status_placeholder' = "info"
    /\ pc' = "wait"
    /\ UNCHANGED <<exc, all_results, remaining, product, exit_reason, propagated,
                   finds, sleeps, quits, snap, callerVars>>

\* lines 53-60: the marker element becomes present within the timeout
WaitMarker ==
    /\ pc = "wait"
    /\ status_placeholder' = "info"
    /\ pc' = "parse"
    /\ UNCHANGED <<exc, full_pages, driver, current_page, all_results, page, remaining, product,
                   exit_reason, propagated, requests, loads, fetched, finds,
                   sleeps, paused, quits, snap, callerVars>>

\* lines 60, 117-119: wait.until raises TimeoutException
WaitTimeout ==
    /\ pc = "wait"
    /\ RaiseInner("TimeoutException")
    /\ UNCHANGED <<full_pages, driver, current_page, all_results, page, remaining, product,
                   requests, loads, fetched, finds, sleeps, paused, quits, callerVars>>

\* lines 60-63: the session is lost while waiting or reading page_source
WaitTransportError ==
    /\ pc = "wait"
    /\ RaiseInner("WebDriverException")
    /\ UNCHANGED <<full_pages, driver, current_page, all_results, page, remaining, product,
                   requests, loads, fetched, finds, sleeps, paused, quits, callerVars>>

\* lines 76-79: no script tag
ParseNoContainer ==
    /\ pc = "parse"
    /\ page.container = "absent"
    /\ Leave("no_container", status_placeholder, "None")
    /\ UNCHANGED <<full_pages, driver, current_page, all_results, page, remaining, product,
                   propagated, requests, loads, fetched, finds, sleeps, paused, quits,
                   callerVars>>

\* line 81: json.loads raises on malformed JSON
ParseMalformed ==
    /\ pc = "parse"
    /\ page.container = "malformed"
    /\ RaiseInner("JSONDecodeError")
    /\ UNCHANGED <<full_pages, driver, current_page, all_results, page, remaining, product,
                   requests, loads, fetched, finds, sleeps, paused, quits, callerVars>>

\* lines 83-88: a value on the path is not a dict (no attribute get)
ParseBadShape ==
    /\ pc = "parse"
    /\ page.container = "bad_shape"
    /\ RaiseInner("AttributeError")
    /\ UNCHANGED <<full_pages, driver, current_page, all_results, page, remaining, product,
                   requests, loads, fetched, finds, sleeps, paused, quits, callerVars>>

\* lines 82-91: keys missing on the path, or no product in any layout
ParseNoProducts ==
    /\ pc = "parse"
    /\ page.container \in {"missing_keys", "ok"}
    /\ EmptyList(ProductsCount(page))
    /\ Leave("no_products", status_placeholder, "None")
    /\ UNCHANGED <<full_pages, driver, current_page, all_results, page, remaining,
                   product, propagated, requests, loads, fetched, finds, sleeps, paused,
                   quits, callerVars>>

\* lines 81-93: products_list is not empty, the for loop starts
ParseProducts ==
    /\ pc = "parse"
    /\ page.container \in {"missing_keys", "ok"}
    /\ ~EmptyList(ProductsCount(page))
    /\ remaining' = ProductsCount(page)
    /\ pc' = IF ProductsCount(page) = 0 THEN "advance" ELSE "extract"
    /\ UNCHANGED <<exc, full_pages, driver, current_page, all_results, page,
                   product, exit_reason, status_placeholder, propagated, requests,
                   loads, fetched, finds, sleeps, paused, quits, snap, callerVars>>

\* lines 93-115: one iteration of the for loop, on entry e
Extract(e) ==
    /\ pc = "extract"
    /\ remaining > 0
    /\ product' = e
    /\ IF Raises(e)
       THEN /\ RaiseInner(RaisedBy(e))
            /\ UNCHANGED <<all_results, remaining>>
       ELSE /\ all_results' = IF Keep(NameOf(e))
                                THEN AppendRecord(all_results, Record(e))
                                ELSE all_results
            /\ remaining' = remaining - 1
            /\ pc' = IF remaining = 1 THEN "advance" ELSE "extract"
            /\ UNCHANGED <<exit_reason, status_placeholder, exc, propagated, snap>>
    /\ UNCHANGED <<full_pages, driver, current_page, page, requests, loads, fetched, finds,
                   sleeps, paused, quits, callerVars>>

ExtractLoop == \E e \in EntriesLoop : Extract(e)

\* lines 123-124: the next-page control is found
FindNext ==
    /\ pc = "advance"
    /\ page.next = "present"
    /\ finds' = finds + 1
    /\ pc' = "navigate"
    /\ UNCHANGED <<exc, full_pages, driver, current_page, all_results, page, remaining, product,
                   exit_reason, status_placeholder, propagated, requests, loads,
                   fetched, sleeps, paused, quits, snap, callerVars>>

\* lines 123, 130-132: find_element raises NoSuchElementException
FindNextAbsent ==
    /\ pc = "advance"
    /\ page.next = "absent"
    /\ finds' = finds + 1
    /\ RaiseNav("NoSuchElementException")
    /\ UNCHANGED <<full_pages, driver, current_page, all_results, page, remaining, product,
                   requests, loads, fetched, sleeps, paused, quits, callerVars>>

\* line 123: find_element fails for another reason
FindNextTransportError ==
    /\ pc = "advance"
    /\ finds' = finds + 1
    /\ RaiseNav("WebDriverException")
    /\ UNCHANGED <<full_pages, driver, current_page, all_results, page, remaining, product,
                   requests, loads, fetched, sleeps, paused, quits, callerVars>>

\* lines 126-127: the next page is loaded, current_page += 1
Navigate ==
    /\ pc = "navigate"
    /\ paused' = FALSE
    /\ requests' = requests + 1
    /\ loads' = loads + 1
    /\ fetched' = Append(fetched, current_page + 1)
    /\ current_page' = NextPageNumber(current_page)
    /\ \E p \in PagesAt(loads + 1) :
          page' = p /\ full_pages' = full_pages + (IF Full(p) THEN 1 ELSE 0)
    /\ pc' = "sleep"
    /\ UNCHANGED <<exc, driver, all_results, remaining, product, exit_reason,
                   status_placeholder, propagated, finds, sleeps, quits, snap,
                   callerVars>>

\* line 126: driver.get(next_page_url) raises
NavigateFails ==
    /\ pc = "navigate"
    /\ paused' = FALSE
    /\ requests' = requests + 1
    /\ fetched' = Append(fetched, current_page + 1)
    /\ RaiseNav("WebDriverException")
    /\ UNCHANGED <<full_pages, driver, current_page, all_results, page, remaining, product,
                   loads, finds, sleeps, quits, callerVars>>

\* line 128
Sleep ==
    /\ pc = "sleep"
    /\ sleeps' = sleeps + 1
    /\ paused' = TRUE
    /\ pc' = "wait"
    /\ UNCHANGED <<exc, full_pages, driver, current_page, all_results, page, remaining, product,
                   exit_reason, status_placeholder, propagated, requests, loads,
                   fetched, finds, quits, snap, callerVars>>

\* lines 136-140: the finally block, then the return (or the exception goes on)
Finally ==
    /\ pc = "finally"
    /\ IF DriverCreated(driver)
       THEN driver' = "quit" /\ quits' = quits + 1
       ELSE UNCHANGED <<driver, quits>>
    /\ IF propagated
       THEN pc' = "raised" /\ UNCHANGED all_scraped_data
       ELSE pc' = "returned" /\ all_scraped_data' = ReturnValue(all_results)
    /\ UNCHANGED <<exc, full_pages, current_page, all_results, page, remaining, product,
                   exit_reason, status_placeholder, propagated, requests, loads,
                   fetched, finds, sleeps, paused, snap, duplicates_mask, unique_df,
                   duplicate_df>>

\* lines 154-163: the caller splits the returned records
Deduplicate ==
    /\ pc = "returned"
    /\ all_scraped_data # <<>>
    /\ duplicates_mask' = duplicated(all_scraped_data)
    /\ unique_df' = Select(DataFrame(all_scraped_data), duplicated(all_scraped_data), FALSE)
    /\ duplicate_df' = Select(DataFrame(all_scraped_data), duplicated(all_scraped_data), TRUE)
    /\ pc' = "displayed"
    /\ UNCHANGED <<exc, full_pages, driver, current_page, all_results, page, remaining, product,
                   exit_reason, status_placeholder, propagated, requests, loads,
                   fetched, finds, sleeps, paused, quits, snap, all_scraped_data>>

\* lines 207-208: nothing was scraped
NoData ==
    /\ pc = "returned"
    /\ all_scraped_data = <<>>
    /\ pc' = "no_data"
    /\ UNCHANGED <<exc, full_pages, driver, current_page, all_results, page, remaining, product,
                   exit_reason, status_placeholder, propagated, requests, loads,
                   fetched, finds, sleeps, paused, quits, snap, callerVars>>

Next ==
    \/ StartNoDriver
    \/ StartGetFails
    \/ Start
    \/ WaitMarker
    \/ WaitTimeout
    \/ WaitTransportError
    \/ ParseNoContainer
    \/ ParseMalformed
    \/ ParseBadShape
    \/ ParseNoProducts
    \/ ParseProducts
    \/ ExtractLoop
    \/ FindNext
    \/ FindNextAbsent
    \/ FindNextTransportError
    \/ Navigate
    \/ NavigateFails
    \/ Sleep
    \/ Finally
    \/ Deduplicate
    \/ NoData

Spec == Init /\ [][Next]_vars

-----------------------------------------------------------------------------
(* Normalisation of a single entry drawn from every shape of entry: the    *)
(* for loop runs on the only entry of the first page.                      *)

InitNorm ==
    /\ pc = "extract"
    /\ driver = "live"
    /\ current_page = 1
    /\ all_results = <<>>
    /\ page = [container |-> "ok", count |-> 1, next |-> "absent"]
    /\ remaining = 1
    /\ product = NoProduct
    /\ exit_reason = "none"
    /\ status_placeholder = "info"
    /\ exc = "None"
    /\ propagated = FALSE
    /\ requests = 1
    /\ loads = 1
    /\ fetched = <<1>>
    /\ finds = 0
    /\ sleeps = 0
    /\ paused = FALSE
    /\ full_pages = 0
    /\ quits = 0
    /\ snap = <<>>
    /\ all_scraped_data = <<>>
    /\ duplicates_mask = <<>>
    /\ unique_df = <<>>
    /\ duplicate_df = <<>>

ExtractAny == \E e \in EntriesAll : Extract(e)

NextNorm ==
    \/ ExtractAny
    \/ FindNextAbsent
    \/ Finally
    \/ Deduplicate
    \/ NoData

SpecNorm == InitNorm /\ [][NextNorm]_vars

-----------------------------------------------------------------------------
(* Runs on a site that never runs out of pages: any page may show a        *)
(* next-page control (next links that form a cycle). The entries of such a *)
(* site carry no productLabel, so all_results stays empty; the counters,   *)
(* which grow for ever in such a run, are kept up to MaxCount.             *)

MaxCount == MaxPages + 1
Sat(n) == IF n > MaxCount THEN MaxCount ELSE n

PagesCycle == UNION {PagesAt(n) : n \in 1..MaxPages}

EntriesUnnamed ==
    {ItemEntry(l, PriceObj(Num(2)), PriceObj(Num(1)), Str("/p/1"), "first_url") :
        l \in {Missing, Str("N/A")}}
    \cup {NullItem, NoItem}

ExtractUnnamed == \E e \in EntriesUnnamed : Extract(e)

\* lines 123-124: the next-page control is found
FindNextCycle ==
    /\ pc = "advance"
    /\ page.next = "present"
    /\ finds' = Sat(finds + 1)
    /\ pc' = "navigate"
    /\ UNCHANGED <<exc, full_pages, driver, current_page, all_results, page,
                   remaining, product, exit_reason, status_placeholder, propagated,
                   requests, loads, fetched, sleeps, paused, quits, snap, callerVars>>

\* lines 126-127: the next page is loaded, current_page += 1
NavigateCycle ==
    /\ pc = "navigate"
    /\ paused' = FALSE
    /\ requests' = Sat(requests + 1)
    /\ loads' = Sat(loads + 1)
    /\ fetched' = IF Len(fetched) < MaxCount
                  THEN Append(fetched, current_page + 1) ELSE fetched
    /\ current_page' = Sat(NextPageNumber(current_page))
    /\ \E p \in PagesCycle :
          page' = p /\ full_pages' = Sat(full_pages + (IF Full(p) THEN 1 ELSE 0))
    /\ pc' = "sleep"
    /\ UNCHANGED <<exc, driver, all_results, remaining, product, exit_reason,
                   status_placeholder, propagated, finds, sleeps, quits, snap,
                   callerVars>>

\* line 128
SleepCycle ==
    /\ pc = "sleep"
    /\ sleeps' = Sat(sleeps + 1)
    /\ paused' = TRUE
    /\ pc' = "wait"
    /\ UNCHANGED <<exc, full_pages, driver, current_page, all_results, page,
                   remaining, product, exit_reason, status_placeholder, propagated,
                   requests, loads, fetched, finds, quits, snap, callerVars>>

NextCycle ==
    \/ StartNoDriver
    \/ StartGetFails
    \/ Start
    \/ WaitMarker
    \/ WaitTimeout
    \/ WaitTransportError
    \/ ParseNoContainer
    \/ ParseMalformed
    \/ ParseBadShape
    \/ ParseNoProducts
    \/ ParseProducts
    \/ ExtractUnnamed
    \/ FindNextCycle
    \/ FindNextAbsent
    \/ FindNextTransportError
    \/ NavigateCycle
    \/ NavigateFails
    \/ SleepCycle
    \/ Finally
    \/ NoData

\* every statement of the script completes: a driver call returns or raises
\* (the wait of line 60 times out after 30 s)
SpecCycle == Init /\ [][NextCycle]_vars /\ WF_vars(NextCycle)

-----------------------------------------------------------------------------
(* Properties *)

\* the function has returned to its caller
Returned == pc \in {"returned", "displayed", "no_data"}
\* the loop ended in DONE / in FAILED
Done == exit_reason \in {"no_container", "no_products", "no_next"}
Failed == exit_reason \in {"timeout", "exception"}

EmptyNames == {Missing, PyNone, Str("")}

\* C1: no record of the accumulated results has an empty name (missing, null
\* or the empty string).
C1_NoEmptyName ==
    \A i \in 1..Len(all_results) : all_results[i].name \notin EmptyNames

Indices(df) == {df[k].idx : k \in 1..Len(df)}

\* C2: the de-duplication is a strict partition of the returned records:
\* every record is in exactly one of unique_df and duplicate_df, unique_df
\* holds the first occurrence of each name (exact match) and therefore no two
\* records of equal name, duplicate_df holds exactly the later occurrences.
C2_StrictPartition ==
    pc = "displayed" =>
        LET n == Len(all_scraped_data)
            U == Indices(unique_df)
            D == Indices(duplicate_df)
        IN  /\ U \cup D = 1..n
            /\ U \cap D = {}
            /\ Cardinality(U) = Len(unique_df)
            /\ Cardinality(D) = Len(duplicate_df)
            /\ \A k \in 1..Len(unique_df) :
                   unique_df[k].row = all_scraped_data[unique_df[k].idx]
            /\ \A k \in 1..Len(duplicate_df) :
                   duplicate_df[k].row = all_scraped_data[duplicate_df[k].idx]
            /\ \A i \in U : \A j \in 1..(i-1) :
                   all_scraped_data[j].name # all_scraped_data[i].name
            /\ \A i \in D : \E j \in 1..(i-1) :
                   all_scraped_data[j].name = all_scraped_data[i].name
            /\ \A k, l \in 1..Len(unique_df) :
                   k # l => unique_df[k].row.name # unique_df[l].row.name

\* a run that returned "a", "A" and a second "a": two unique names that differ
\* by case only, one duplicate
C2_Witness ==
    /\ pc = "displayed"
    /\ Len(duplicate_df) >= 1
    /\ \E k, l \in 1..Len(unique_df) :
          unique_df[k].row.name = Str("a") /\ unique_df[l].row.name = Str("A")

TransportErrors == {"TimeoutException", "WebDriverException"}

C3_State ==
    (exc \in TransportErrors /\ Failed) =>
        /\ ~propagated
        /\ pc # "raised"
        /\ Returned => all_scraped_data = snap

C3_Step ==
    (exc \in TransportErrors /\ Failed) =>
        /\ UNCHANGED <<requests, loads, finds, sleeps, all_results, current_page>>
        /\ pc' \in {"returned", "displayed", "no_data"}

\* C3: after a wait timeout or a transport error the run ends at once (no
\* further request, lookup or record), the function returns exactly the
\* records accumulated when the failure occurred, and no exception reaches
\* the caller.
C3_FailureReturnsAccumulated == [](C3_State) /\ [][C3_Step]_vars

\* the wait for the second page timed out, the records of the first page are returned
C3_Witness ==
    /\ pc = "returned"
    /\ exit_reason = "timeout"
    /\ current_page = 2
    /\ Len(all_scraped_data) >= 1

\* C4 (as claimed): for every page limit N, a run on a site with at least N
\* pages of data, each with a next-page control, performs exactly N page
\* fetches and then stops in DONE.
C4_ExactlyMaxPagesFetches ==
    \A N \in 1..MaxPages :
        (Returned /\ Done /\ full_pages >= N) => loads = N

\* C4 (amended): the loop has no page limit; it stops in DONE on the first
\* page that lacks the container, the entries or the next-page control, so
\* on a site whose first N-1 pages carry entries and a next-page control it
\* performs exactly N page fetches.
C4_StopsAtFirstIncompletePage ==
    (Returned /\ Done) =>
        /\ loads = full_pages + 1
        /\ requests = loads
        /\ ~Full(page)

\* one page with entries and a next-page control, then the last page
C4_Witness ==
    /\ Returned
    /\ exit_reason = "no_next"
    /\ full_pages = 1
    /\ loads = 2

\* C5 (as claimed, the bounded part): whatever page limit max_pages is
\* fixed, current_page never exceeds it.
C5_NeverExceedsMaxPages ==
    \A max_pages \in 1..MaxPages : current_page <= max_pages

C5_State == current_page = loads

C5_Step ==
    /\ (pc = "start" /\ pc' = "wait") => current_page' = 1
    /\ (pc = "navigate" /\ pc' = "sleep") => current_page' = current_page + 1
    /\ current_page' # current_page =>
          \/ pc = "start" /\ pc' = "wait"
          \/ pc = "navigate" /\ pc' = "sleep"

\* C5 (amended): current_page starts at 1, increases by exactly 1 on each
\* successful ADVANCING -> FETCHING transition and changes at no other step;
\* there is no page limit: it always equals the number of completed loads.
C5_PageCounter == [](C5_State) /\ [][C5_Step]_vars

\* the second page is being fetched
C5_Witness == pc = "wait" /\ current_page = 2

C6_Step ==
    /\ (pc = "advance" /\ page.next = "absent" /\ exc' # "WebDriverException") =>
          /\ pc' = "finally"
          /\ exit_reason' = "no_next"
          /\ status_placeholder' = "success"
          /\ UNCHANGED <<current_page, all_results, requests, loads>>
    /\ exit_reason = "no_next" =>
          UNCHANGED <<exit_reason, current_page, all_results, requests, loads, finds>>

\* C6: on a page without next-page control the ADVANCING step ends the loop
\* in DONE and leaves current_page and the accumulated results unchanged; no
\* page is fetched afterwards and the outcome stays the same.
C6_AdvanceWithoutNext == [][C6_Step]_vars

\* the second page had no next-page control
C6_Witness ==
    /\ pc = "returned"
    /\ exit_reason = "no_next"
    /\ current_page = 2
    /\ Len(all_scraped_data) >= 1

C7_Step ==
    /\ (pc = "parse" /\ (page.container = "absent" \/ ProductsCount(page) = 0)
          /\ page.container \notin {"malformed", "bad_shape"}) =>
          /\ pc' = "finally"
          /\ exit_reason' \in {"no_container", "no_products"}
          /\ status_placeholder' # "error"
          /\ UNCHANGED <<finds, requests, loads, all_results, current_page>>
    /\ exit_reason \in {"no_container", "no_products"} =>
          /\ UNCHANGED <<finds, requests, loads, all_results, current_page>>
          /\ pc' = "returned" => all_scraped_data' = all_results

\* C7: a page without container, or whose container yields no product
\* entry, ends the loop in DONE at once: no next-page control is looked for,
\* no page is fetched, and the records accumulated before are returned
\* unchanged.
C7_EmptyPageStops == [][C7_Step]_vars

\* the second page had no container, the records of the first are returned
C7_Witness ==
    /\ pc = "returned"
    /\ exit_reason = "no_container"
    /\ current_page = 2
    /\ finds = 1
    /\ Len(all_scraped_data) >= 1

ParseErrors == {"JSONDecodeError", "AttributeError", "TypeError", "IndexError"}

\* a page failed to parse: an exception of the parsing code, or keys missing
ParseFailure ==
    \/ Failed /\ exc \in ParseErrors
    \/ exit_reason = "no_products" /\ page.container = "missing_keys"

\* C8 (as claimed): a parse failure ends the run like an empty page, with no
\* error reported, and the records accumulated so far are returned.
C8_ParseFailureIsNoMoreData ==
    ParseFailure =>
        /\ exit_reason = "no_products"
        /\ status_placeholder # "error"
        /\ Returned => all_scraped_data = snap

\* C8 (amended): missing keys end the run like an empty page with no error
\* reported; malformed JSON or a value of an unexpected shape raises, the
\* catch-all handler reports an error; in both cases no exception reaches the
\* caller and the records accumulated so far are returned.
C8_ParseFailureEndsRun ==
    ParseFailure =>
        /\ ~propagated
        /\ pc # "raised"
        /\ Returned => all_scraped_data = snap
        /\ exc = "None" => (exit_reason = "no_products" /\ status_placeholder # "error")
        /\ exc # "None" => (exit_reason = "exception" /\ status_placeholder = "error")

\* the JSON of the second page was malformed
C8_Witness ==
    /\ pc = "returned"
    /\ exc = "JSONDecodeError"
    /\ current_page = 2
    /\ status_placeholder = "error"
    /\ Len(all_scraped_data) >= 1

C9_State ==
    /\ loads <= current_page
    /\ Len(fetched) = requests
    /\ \A i, j \in 1..Len(fetched) : i # j => fetched[i] # fetched[j]

C9_Step == Failed => UNCHANGED <<requests, loads, fetched>>

\* C9: no page is fetched after a failure, each page is requested at most
\* once and the number of page loads never exceeds current_page.
C9_NoRetry == [](C9_State) /\ [][C9_Step]_vars

\* the request for the second page failed
C9_Witness ==
    /\ pc = "returned"
    /\ Failed
    /\ requests = 2
    /\ loads = 1

\* the entry of the normalisation run was emitted as a record
Emitted == pc # "extract" /\ Len(all_results) = 1

\* C10 (as claimed): current_price is the special price when one is present
\* and otherwise the original price; original_price is null when both prices
\* are present and equal; a non-null original_price differs from current_price.
C10_SpecialWhenPresent ==
    Emitted =>
        LET o == PriceOf(product.originalPrice)
            s == PriceOf(product.specialPrice)
            r == all_results[1]
        IN  /\ s # PyNone => r.current_price = s
            /\ s = PyNone => r.current_price = o
            /\ (o # PyNone /\ s # PyNone /\ o = s) => r.original_price = PyNone
            /\ r.original_price # PyNone => r.original_price # r.current_price

\* C10 (amended): current_price is the special price when one is present and
\* not zero, and otherwise the original price; original_price is the original
\* price when the special price is present, not zero and different from it,
\* and null otherwise, so it is null when both prices are equal and a
\* non-null original_price differs from current_price.
C10_PriceNormalisation ==
    Emitted =>
        LET o == PriceOf(product.originalPrice)
            s == PriceOf(product.specialPrice)
            r == all_results[1]
            special == s # PyNone /\ s # Num(0)
        IN  /\ special => r.current_price = s
            /\ ~special => r.current_price = o
            /\ (special /\ o # s) => r.original_price = o
            /\ (~special \/ o = s) => r.original_price = PyNone
            /\ r.original_price # PyNone => r.original_price # r.current_price

\* an entry with a special price of 0 and an original price of 1
C10_Witness ==
    /\ Emitted
    /\ PriceOf(product.specialPrice) = Num(0)
    /\ PriceOf(product.originalPrice) = Num(1)
    /\ all_results[1].current_price = Num(1)

\* the entry of the normalisation run has a name and, the image apart, the
\* expected shape
NamedEntry ==
    /\ pc # "extract"
    /\ product.item = "dict"
    /\ product.productLabel \notin EmptyNames \cup {Str("N/A")}
    /\ product.originalPrice # PyNone
    /\ product.specialPrice # PyNone
    /\ product.url # PyNone

\* no media field, no images field, an empty images list, a first image without url
AbsentImages == {"missing", "no_images", "empty_list", "first_no_url"}

\* C11: a named entry whose image is absent in any form is emitted with the
\* placeholder as image_url; the missing image does not end the run.
C11_MissingImagePlaceholder ==
    (NamedEntry /\ product.media \in AbsentImages) =>
        /\ ~Failed
        /\ Len(all_results) = 1
        /\ all_results[1].image_url = PLACEHOLDER

\* the entry has no name: the label is absent, null or the empty string
LacksName(e) == e.productLabel \in EmptyNames

\* each entry the for loop completes adds one record when it has a name and
\* none when it lacks one, so a page of R entries, K of them nameless, adds R-K
C12_Step ==
    (pc = "extract" /\ remaining' = remaining - 1) =>
        Len(all_results') = Len(all_results) + (IF LacksName(product') THEN 0 ELSE 1)

\* with C collisions among the names of the returned records the unique
\* count is total-C and the duplicate count is C
C12_State ==
    pc = "displayed" =>
        LET total == Len(all_scraped_data)
            names == {all_scraped_data[i].name : i \in 1..total}
            C == total - Cardinality(names)
        IN  /\ Len(unique_df) = total - C
            /\ Len(duplicate_df) = C

\* C12: a page with R raw entries of which K lack a name contributes exactly
\* R-K records, and with C name collisions among the accumulated records the
\* unique count is total-C and the duplicate count is C.
C12_PageAndDedupCounts == [](C12_State) /\ [][C12_Step]_vars

C13_Step == (requests >= 1 /\ requests' = requests + 1) => paused

\* C13: every page request after the first is issued only after a politeness
\* delay that followed the previous request: no two successive requests
\* without a pause between them.
C13_DelayBetweenRequests == [][C13_Step]_vars

\* C14 (as claimed): every run eventually reaches a terminal state and
\* returns, whatever the site serves.
C14_AlwaysTerminates == <>Returned

\* C14 (amended): every run eventually reaches a terminal state and returns
\* unless the site serves pages with entries and a next-page control for
\* ever; the loop has no page limit and does not end on such a site.
C14_TerminatesUnlessEndless == <>Returned \/ []<>(pc = "advance" /\ Full(page))

\* a run that returned after more pages than MaxPages
C14_Witness ==
    /\ Returned
    /\ exit_reason = "no_next"
    /\ loads = MaxCount

\* the absolute URL the url of an entry designates on the site
Resolved(u) ==
    CASE u = Str("/p/1") -> "https://www.homedepot.com/p/1"
      [] u = Str("p/1") -> "https://www.homedepot.com/p/1"
      [] u = Str("https://www.homedepot.com/p/1") -> "https://www.homedepot.com/p/1"

\* C15: the link of an emitted record is the absolute URL on the
\* site's origin that the entry's url designates, whether the url is relative
\* or already absolute.
C15_LinkResolvesUrl ==
    (Emitted /\ product.url # Missing) =>
        all_results[1].link = Resolved(product.url)

\* C16: once the function has returned, a driver that was created (a request
\* was issued) has been quit exactly once, a driver that was never created has
\* not been quit, and at no time is the driver quit more than once or live
\* after the return.
C16_DriverQuitOnce ==
    /\ quits <= 1
    /\ driver = "quit" <=> quits = 1
    /\ Returned =>
          /\ driver # "live"
          /\ requests >= 1 => (driver = "quit" /\ quits = 1)
          /\ requests = 0 => (driver = "None" /\ quits = 0)

\* the function returned after an exception on a later page, the driver quit
C16_Witness ==
    /\ Returned
    /\ exit_reason = "exception"
    /\ loads >= 2
    /\ driver = "quit"
    /\ quits = 1

\* one step of C17: the accumulated list changes only by one record put at
\* its end, the record of the entry the for loop is on, on the current page;
\* the page number never goes back; after the loop is left the list does not
\* change, and the return hands it over as it is
C17_Step ==
    /\ all_results' # all_results =>
          /\ pc = "extract"
          /\ all_results' = Append(all_results, Record(product'))
          /\ remaining' = remaining - 1
          /\ current_page' = current_page
    /\ current_page' >= current_page
    /\ exit_reason # "none" => all_results' = all_results
    /\ (pc = "finally" /\ pc' = "returned") =>
          (all_results' = all_results /\ all_scraped_data' = all_results)

\* C17: the accumulated result list is append-only: each step leaves it
\* unchanged or extends it by one record at the end, in the order the pages
\* are visited and the entries of a page are processed, and no exit path
\* removes or reorders records.
C17_AppendOnly == [][C17_Step]_vars

\* records of two pages were returned after an exception in the middle of the
\* second page
C17_Witness ==
    /\ Returned
    /\ exit_reason = "exception"
    /\ loads = 2
    /\ remaining > 0
    /\ Len(all_scraped_data) >= 2
    /\ all_scraped_data[1] # all_scraped_data[2]

====
